---- MODULE Spec2Model ----
(***************************************************************************)
(* Model of the glass host-metrics client: the collectors of package       *)
(* collectors (CPU, memory, disk, network), their registry, and the driver *)
(* main() that runs every registered collector once.                       *)
(*                                                                         *)
(* The gopsutil queries (cpu.Info, cpu.Counts, cpu.Times,                  *)
(* mem.VirtualMemory, disk.Usage, net.IOCounters, net.Connections) are the *)
(* environment: each call returns a Go pair (value, err), drawn from a     *)
(* small set of outcomes.  A failed query returns the zero value of its    *)
(* result type (nil slice, nil pointer, 0) together with a non-nil error.  *)
(* A pointer is modelled as a sequence of length 0 (nil) or 1.             *)
(* The zerolog sink is the sequence log of emitted records.                *)
(***************************************************************************)
EXTENDS Integers, Sequences, FiniteSets, TLC

VARIABLES pc, collectors, idx, log, calls

vars == <<pc, collectors, idx, log, calls>>

\* ---------------------------------------------------------------- bounds
MaxCPUs == 2
MaxTimes == 1
MaxIfaces == 2
MaxConns == 1
MaxCalls == 2

\* ------------------------------------------------------ platform readings
NoErr == "<nil>"

PlatformErrors == {"permission denied"}

SeqsUpTo(S, n) == UNION {[1..k -> S] : k \in 0..n}

InfoStatSamples ==
  { [VendorID |-> "GenuineIntel", Mhz |-> 2400, Cores |-> 4, CacheSize |-> 8192],
    [VendorID |-> "AuthenticAMD", Mhz |-> 3000, Cores |-> 8, CacheSize |-> 512] }

TimesStatSamples ==
  { [CPU |-> "cpu-total", User |-> 11, System |-> 12, Idle |-> 13, Nice |-> 14,
     Iowait |-> 15, Irq |-> 16, Softirq |-> 17, Steal |-> 18, Guest |-> 19,
     GuestNice |-> 20] }

VirtualMemoryStatSamples ==
  { [Total |-> 1000, Available |-> 400, Used |-> 600, Free |-> 400, UsedPercent |-> 60],
    [Total |-> 2048, Available |-> 1024, Used |-> 768, Free |-> 256, UsedPercent |-> 37] }

UsageStatSamples ==
  { [Total |-> 500, Free |-> 120, Used |-> 380, UsedPercent |-> 76],
    [Total |-> 900, Free |-> 450, Used |-> 451, UsedPercent |-> 50] }

IOCountersStatSamples ==
  { [Name |-> "eth0", BytesSent |-> 100, BytesRecv |-> 200, PacketsSent |-> 3, PacketsRecv |-> 4],
    [Name |-> "lo", BytesSent |-> 5, BytesRecv |-> 5, PacketsSent |-> 1, PacketsRecv |-> 2] }

ConnectionStatSamples ==
  { [Laddr |-> "10.0.0.1:22", Raddr |-> "10.0.0.9:5000", Status |-> "ESTABLISHED", Pid |-> 71],
    [Laddr |-> "10.0.0.1:443", Raddr |-> "10.0.0.7:6000", Status |-> "LISTEN", Pid |-> 0] }

\* a slice-valued query: a list with a nil error, or a nil slice with an error
SliceOutcomes(S, n) ==
  {[val |-> l, err |-> NoErr] : l \in SeqsUpTo(S, n)}
    \cup {[val |-> <<>>, err |-> e] : e \in PlatformErrors}

\* a pointer-valued query: a pointer to a reading with a nil error, or a nil
\* pointer with an error
PointerOutcomes(S) ==
  {[val |-> <<s>>, err |-> NoErr] : s \in S}
    \cup {[val |-> <<>>, err |-> e] : e \in PlatformErrors}

\* cpu.Counts(true): a count with a nil error, or 0 with an error
CountOutcomes ==
  {[val |-> MaxCPUs, err |-> NoErr]} \cup {[val |-> 0, err |-> e] : e \in PlatformErrors}

\* the queries one Collector() call of the given type makes
Env(type) ==
  CASE type = "CPUCollector" ->
         [cpu_info : SliceOutcomes(InfoStatSamples, MaxCPUs),
          cpu_count : CountOutcomes,
          cpu_times : SliceOutcomes(TimesStatSamples, MaxTimes)]
    [] type = "MemoryCollector" ->
         [virtual_memory : PointerOutcomes(VirtualMemoryStatSamples)]
    [] type = "DiskCollector" ->
         [disk_usage : PointerOutcomes(UsageStatSamples)]
    [] type = "NetworkCollector" ->
         [net_connections : SliceOutcomes(ConnectionStatSamples, MaxConns),
          net_io_counters : SliceOutcomes(IOCountersStatSamples, MaxIfaces)]

\* ------------------------------------------------------------- log records
NoFields == [k \in {} |-> 0]

\* log.Info()...Msg(m)
InfoRec(fields, m) == [level |-> "info", fields |-> fields, msg |-> m]

\* log.Err(err).Msg(m) and log.Error().Err(err).Msg(m) with err != nil
ErrRec(err, m) == [level |-> "error", fields |-> ("error" :> err), msg |-> m]

Banner == InfoRec(NoFields, "Cloudways Looking Glass")

\* the zero value of struct{}: the collectors have no fields
EmptyStruct == <<>>

\* ------------------------------------------------------------- collectors
\* the outcome of one Collector() call: the receiver's fields afterwards, the
\* records it wrote to the sink, whether it panicked (then nothing is
\* returned), and the returned error
Returned(self, records, ret) ==
  [self |-> self, records |-> records, panic |-> FALSE, ret |-> ret]

Panicked(self, records) ==
  [self |-> self, records |-> records, panic |-> TRUE, ret |-> NoErr]

\* if err != nil { log...Err(err).Msg(m) }
LogIfErr(err, m) == IF err # NoErr THEN <<ErrRec(err, m)>> ELSE <<>>

CPUInfoFields(i, vCPU) ==
  ("vendor" :> i.VendorID) @@ ("freq" :> i.Mhz) @@ ("cores" :> i.Cores)
    @@ ("cache" :> i.CacheSize) @@ ("vCPU" :> vCPU)

CPUTimesFields(t) ==
  ("cpu" :> t.CPU) @@ ("user" :> t.User) @@ ("system" :> t.System)
    @@ ("idle" :> t.Idle) @@ ("nice" :> t.Nice) @@ ("iowait" :> t.Iowait)
    @@ ("irq" :> t.Irq) @@ ("softirq" :> t.Softirq) @@ ("steal" :> t.Steal)
    @@ ("guest" :> t.Guest) @@ ("guest-nice" :> t.GuestNice)

\* cpuInfo[0] panics (index out of range) when cpuInfo is nil or empty
CPUCollector_Collector(c, info, count, times) ==
  LET r1 == LogIfErr(info.err, "Error getting CPU info")
  IN IF Len(info.val) = 0
     THEN Panicked(c, r1)
     ELSE LET r2 == LogIfErr(count.err, "Error getting vCPU count")
              r3 == <<InfoRec(CPUInfoFields(info.val[1], count.val), "")>>
              r4 == LogIfErr(times.err, "Error getting CPU times")
              r5 == [i \in 1..Len(times.val) |-> InfoRec(CPUTimesFields(times.val[i]), "")]
          IN Returned(c, r1 \o r2 \o r3 \o r4 \o r5, NoErr)

ZeroCPUInformation == [Vendor |-> "", Freq |-> 0, Cores |-> 0, Cache |-> 0, VCPU |-> 0]

\* the outcome of CPUInformation(): the struct and error returned, or a panic
CPUCollector_CPUInformation(c, info) ==
  IF info.err # NoErr
  THEN [val |-> ZeroCPUInformation, err |-> info.err, panic |-> FALSE]
  ELSE IF Len(info.val) = 0
       THEN [val |-> ZeroCPUInformation, err |-> NoErr, panic |-> TRUE]
       ELSE [val |-> [Vendor |-> info.val[1].VendorID, Freq |-> info.val[1].Mhz,
                      Cores |-> info.val[1].Cores, Cache |-> info.val[1].CacheSize,
                      VCPU |-> Len(info.val)],
             err |-> NoErr, panic |-> FALSE]

MemoryFields(v) ==
  ("total" :> v.Total) @@ ("available" :> v.Available) @@ ("used" :> v.Used)
    @@ ("free" :> v.Free) @@ ("used-percent" :> v.UsedPercent)

\* a variant that reports once per instance and is silent afterwards
MemoryCollector_Collector_Once(m, vm) ==
  LET r1 == LogIfErr(vm.err, "Error getting memory info")
  IN IF Len(vm.val) = 0
     THEN Panicked(m, r1)
     ELSE IF m = EmptyStruct
          THEN Returned(<<1>>, r1 \o <<InfoRec(MemoryFields(vm.val[1]), "")>>, NoErr)
          ELSE Returned(m, r1, NoErr)

\* a variant that leaves the available field out of the record
MemoryCollector_Collector_NoAvailable(m, vm) ==
  LET r1 == LogIfErr(vm.err, "Error getting memory info")
  IN IF Len(vm.val) = 0
     THEN Panicked(m, r1)
     ELSE Returned(m, r1 \o <<InfoRec([k \in DOMAIN MemoryFields(vm.val[1]) \ {"available"}
                                         |-> MemoryFields(vm.val[1])[k]], "")>>, NoErr)

\* vmstat.Total dereferences vmstat, which is nil when the query failed
MemoryCollector_Collector(m, vm) ==
  LET r1 == LogIfErr(vm.err, "Error getting memory info")
  IN IF Len(vm.val) = 0
     THEN Panicked(m, r1)
     ELSE Returned(m, r1 \o <<InfoRec(MemoryFields(vm.val[1]), "")>>, NoErr)

DiskFields(d) ==
  ("total" :> d.Total) @@ ("free" :> d.Free) @@ ("used" :> d.Used)
    @@ ("used-percent" :> d.UsedPercent)

\* diskstat.Total dereferences diskstat, which is nil when the query failed
DiskCollector_Collector(d, du) ==
  LET r1 == LogIfErr(du.err, "Error getting disk info")
  IN IF Len(du.val) = 0
     THEN Panicked(d, r1)
     ELSE Returned(d, r1 \o <<InfoRec(DiskFields(du.val[1]), "")>>, NoErr)

NetFields(s) ==
  ("name" :> s.Name) @@ ("bytes-sent" :> s.BytesSent) @@ ("bytes-received" :> s.BytesRecv)
    @@ ("packets-sent" :> s.PacketsSent) @@ ("packets-received" :> s.PacketsRecv)

ConnFields(c) == ("connection" :> c)

\* a variant that logs the connections before the interface counters
NetworkCollector_Collector_ConnFirst(n, conns, io) ==
  LET r1 == LogIfErr(io.err, "Error getting network info")
      r2 == [i \in 1..Len(io.val) |-> InfoRec(NetFields(io.val[i]), "")]
      r3 == [i \in 1..Len(conns.val) |-> InfoRec(ConnFields(conns.val[i]), "")]
  IN Returned(n, r1 \o r3 \o r2, NoErr)

\* a variant that reports the failure of the connections query
NetworkCollector_Collector_LogConnErr(n, conns, io) ==
  LET r0 == LogIfErr(conns.err, "Error getting connections")
      r1 == LogIfErr(io.err, "Error getting network info")
      r2 == [i \in 1..Len(io.val) |-> InfoRec(NetFields(io.val[i]), "")]
      r3 == [i \in 1..Len(conns.val) |-> InfoRec(ConnFields(conns.val[i]), "")]
  IN Returned(n, r0 \o r1 \o r2 \o r3, NoErr)

\* the error of net.Connections is assigned to _; ranging over a nil slice
\* runs no iteration
NetworkCollector_Collector(n, conns, io) ==
  LET r1 == LogIfErr(io.err, "Error getting network info")
      r2 == [i \in 1..Len(io.val) |-> InfoRec(NetFields(io.val[i]), "")]
      r3 == [i \in 1..Len(conns.val) |-> InfoRec(ConnFields(conns.val[i]), "")]
  IN Returned(n, r1 \o r2 \o r3, NoErr)

\* dynamic dispatch of the interface method Collector() on the concrete type
Collector(c, env) ==
  CASE c.type = "CPUCollector" ->
         CPUCollector_Collector(c.self, env.cpu_info, env.cpu_count, env.cpu_times)
    [] c.type = "MemoryCollector" ->
         MemoryCollector_Collector(c.self, env.virtual_memory)
    [] c.type = "DiskCollector" ->
         DiskCollector_Collector(c.self, env.disk_usage)
    [] c.type = "NetworkCollector" ->
         NetworkCollector_Collector(c.self, env.net_connections, env.net_io_counters)

\* a variant that registers the disk collector before the memory collector
RegisterCollectors_DiskFirst ==
  << [type |-> "CPUCollector", self |-> EmptyStruct],
     [type |-> "DiskCollector", self |-> EmptyStruct],
     [type |-> "MemoryCollector", self |-> EmptyStruct],
     [type |-> "NetworkCollector", self |-> EmptyStruct] >>

\* a slice of pointers to four fresh collectors
RegisterCollectors ==
  << [type |-> "CPUCollector", self |-> EmptyStruct],
     [type |-> "MemoryCollector", self |-> EmptyStruct],
     [type |-> "DiskCollector", self |-> EmptyStruct],
     [type |-> "NetworkCollector", self |-> EmptyStruct] >>

\* ------------------------------------------------------------- the driver
\* one entry of the call history
Call(op, recv, env, out) == [op |-> op, recv |-> recv, env |-> env, out |-> out]

Init ==
  /\ pc = "start"
  /\ collectors = <<>>
  /\ idx = 0
  /\ log = <<>>
  /\ calls = <<>>

\* main: the banner, then the registry
MainStart ==
  /\ pc = "start"
  /\ log' = Append(log, Banner)
  /\ collectors' = RegisterCollectors
  /\ idx' = 1
  /\ pc' = "loop"
  /\ UNCHANGED calls

\* main: one iteration of the range loop; a panic ends the process
MainLoop ==
  /\ pc = "loop"
  /\ idx <= Len(collectors)
  /\ \E env \in Env(collectors[idx].type) :
       LET out == Collector(collectors[idx], env)
       IN /\ log' = log \o out.records
          /\ collectors' = [collectors EXCEPT ![idx].self = out.self]
          /\ calls' = Append(calls, Call("Collector", idx, env, out))
          /\ IF out.panic
             THEN pc' = "crashed" /\ idx' = idx
             ELSE pc' = "loop" /\ idx' = idx + 1

\* main returns after the last collector: exit status 0
MainExit ==
  /\ pc = "loop"
  /\ idx > Len(collectors)
  /\ pc' = "exited"
  /\ UNCHANGED <<collectors, idx, log, calls>>

Next == MainStart \/ MainLoop \/ MainExit

Spec == Init /\ [][Next]_vars

\* ------------------------------------------- calls on one collector instance
\* a caller of the package: it holds a registry, picks one of its collectors
\* and calls the package's operations on it, at most MaxCalls times
InitCalls ==
  /\ pc = "test"
  /\ collectors = RegisterCollectors
  /\ idx \in 1..Len(RegisterCollectors)
  /\ log = <<>>
  /\ calls = <<>>

CallCollector ==
  /\ pc = "test"
  /\ Len(calls) < MaxCalls
  /\ \E env \in Env(collectors[idx].type) :
       LET out == Collector(collectors[idx], env)
       IN /\ log' = log \o out.records
          /\ collectors' = [collectors EXCEPT ![idx].self = out.self]
          /\ calls' = Append(calls, Call("Collector", idx, env, out))
          /\ pc' = IF out.panic THEN "crashed" ELSE "test"
          /\ UNCHANGED idx

CallCPUInformation ==
  /\ pc = "test"
  /\ Len(calls) < MaxCalls
  /\ collectors[idx].type = "CPUCollector"
  /\ \E info \in SliceOutcomes(InfoStatSamples, MaxCPUs) :
       LET out == CPUCollector_CPUInformation(collectors[idx].self, info)
       IN /\ calls' = Append(calls, Call("CPUInformation", idx, [cpu_info |-> info], out))
          /\ pc' = IF out.panic THEN "crashed" ELSE "test"
          /\ UNCHANGED <<collectors, idx, log>>

CallRegisterCollectors ==
  /\ pc = "test"
  /\ Len(calls) < MaxCalls
  /\ calls' = Append(calls, Call("RegisterCollectors", 0, <<>>, RegisterCollectors))
  /\ UNCHANGED <<pc, collectors, idx, log>>

NextCalls == CallCollector \/ CallCPUInformation \/ CallRegisterCollectors

SpecCalls == InitCalls /\ [][NextCalls]_vars

\* ------------------------------------------------------------- properties
TypeOfCall(i) == collectors[calls[i].recv].type

IsCollectorCall(i, type) ==
  /\ calls[i].op = "Collector"
  /\ TypeOfCall(i) = type

\* some query made during the call returned a non-nil error
QueryFailed(i) == \E q \in DOMAIN calls[i].env : calls[i].env[q].err # NoErr

\* a query the CPU collector made during the call returned a non-nil error:
\* cpu.Info, or (once cpuInfo[0] could be read) cpu.Counts or cpu.Times
CPUQueryFailed(i) ==
  LET e == calls[i].env
  IN \/ e.cpu_info.err # NoErr
     \/ /\ Len(e.cpu_info.val) > 0
        /\ (e.cpu_count.err # NoErr \/ e.cpu_times.err # NoErr)

InfoRecords(rs) == {j \in 1..Len(rs) : rs[j].level = "info"}

ErrorRecords(rs) == {j \in 1..Len(rs) : rs[j].level # "info"}

RunEnded == pc \in {"exited", "crashed"}

RECURSIVE ConcatRecords(_, _)
ConcatRecords(cs, n) ==
  IF n = 0 THEN <<>>
  ELSE ConcatRecords(cs, n - 1)
         \o (IF cs[n].op = "Collector" THEN cs[n].out.records ELSE <<>>)

\* C1: in a finished run of the driver in which a query of the CPU collector
\* failed (and no query of another collector did), the memory, disk and
\* network collectors were each invoked and ran to completion, and the memory
\* and disk collectors each emitted their report record.
C1_Isolation ==
  ( /\ RunEnded
    /\ \E i \in 1..Len(calls) : IsCollectorCall(i, "CPUCollector") /\ CPUQueryFailed(i)
    /\ \A i \in 1..Len(calls) : ~IsCollectorCall(i, "CPUCollector") => ~QueryFailed(i) )
  => \A t \in {"MemoryCollector", "DiskCollector", "NetworkCollector"} :
       \E i \in 1..Len(calls) :
         /\ IsCollectorCall(i, t)
         /\ ~calls[i].out.panic
         /\ (t # "NetworkCollector" => InfoRecords(calls[i].out.records) # {})

\* C2: whatever the platform queries return, the run of the driver never
\* reaches the crashed state.
C2_NoErrorAbortsTheRun == pc # "crashed"

\* C3: CPUInformation() on an empty list returns a non-nil error that is not
\* a platform error, without panicking; on a non-empty list it returns the
\* first entry's vendor, frequency, cores and cache with a nil error; on a
\* failed query it returns that error with the zero-valued struct.
C3_EmptyCPUListSafety ==
  \A i \in 1..Len(calls) :
    calls[i].op = "CPUInformation" =>
      LET info == calls[i].env.cpu_info
          out == calls[i].out
      IN /\ (info.err = NoErr /\ Len(info.val) = 0) =>
              (~out.panic /\ out.err # NoErr /\ out.err \notin PlatformErrors)
         /\ (info.err = NoErr /\ Len(info.val) > 0) =>
              /\ ~out.panic
              /\ out.err = NoErr
              /\ out.val.Vendor = info.val[1].VendorID
              /\ out.val.Freq = info.val[1].Mhz
              /\ out.val.Cores = info.val[1].Cores
              /\ out.val.Cache = info.val[1].CacheSize
         /\ info.err # NoErr =>
              (~out.panic /\ out.err = info.err /\ out.val = ZeroCPUInformation)

\* C4: every call of RegisterCollectors() returns exactly four fresh
\* collectors, of the types CPU, memory, disk, network in this order, whatever
\* was called before; so does the registry the caller holds.
RegistryShape(r) ==
  /\ Len(r) = 4
  /\ r[1].type = "CPUCollector"
  /\ r[2].type = "MemoryCollector"
  /\ r[3].type = "DiskCollector"
  /\ r[4].type = "NetworkCollector"

C4_RegistryCompleteness ==
  /\ RegistryShape(collectors)
  /\ \A i \in 1..Len(calls) :
       calls[i].op = "RegisterCollectors" =>
         /\ RegistryShape(calls[i].out)
         /\ \A k \in 1..Len(calls[i].out) : calls[i].out[k].self = EmptyStruct

\* C4 witness: RegisterCollectors() was called after a collection
C4_Witness ==
  \E i, j \in 1..Len(calls) :
    /\ i < j
    /\ calls[i].op = "Collector"
    /\ calls[j].op = "RegisterCollectors"

\* C5: there is no Collector() call in which a query failed, no metric record
\* was emitted, and the call still returned nil.
C5_OutcomeOfCollect ==
  \A i \in 1..Len(calls) :
    calls[i].op = "Collector" =>
      ~ ( /\ QueryFailed(i)
          /\ InfoRecords(calls[i].out.records) = {}
          /\ ~calls[i].out.panic
          /\ calls[i].out.ret = NoErr )

\* C6: a Collector() call of the memory collector whose query succeeded emits
\* exactly one record, at info level, whose fields are exactly total,
\* available, used, free and used-percent with the values of the reading.
C6_MemoryReport ==
  \A i \in 1..Len(calls) :
    (IsCollectorCall(i, "MemoryCollector") /\ calls[i].env.virtual_memory.err = NoErr) =>
      LET v == calls[i].env.virtual_memory.val[1]
          rs == calls[i].out.records
      IN /\ Len(rs) = 1
         /\ rs[1].level = "info"
         /\ DOMAIN rs[1].fields = {"total", "available", "used", "free", "used-percent"}
         /\ rs[1].fields["total"] = v.Total
         /\ rs[1].fields["available"] = v.Available
         /\ rs[1].fields["used"] = v.Used
         /\ rs[1].fields["free"] = v.Free
         /\ rs[1].fields["used-percent"] = v.UsedPercent

\* C6 witness: the memory collector reported the reading
\* {total 1000, available 400, used 600, free 400, used-percent 60}
C6_Witness ==
  \E i \in 1..Len(calls) :
    /\ IsCollectorCall(i, "MemoryCollector")
    /\ calls[i].env.virtual_memory.err = NoErr
    /\ calls[i].env.virtual_memory.val[1].Total = 1000
    /\ ~calls[i].out.panic
    /\ Len(calls[i].out.records) = 1

\* r is the record the network collector writes for interface counters s
IsIfaceRecord(r, s) ==
  /\ r.level = "info"
  /\ DOMAIN r.fields =
       {"name", "bytes-sent", "bytes-received", "packets-sent", "packets-received"}
  /\ r.fields["name"] = s.Name
  /\ r.fields["bytes-sent"] = s.BytesSent
  /\ r.fields["bytes-received"] = s.BytesRecv
  /\ r.fields["packets-sent"] = s.PacketsSent
  /\ r.fields["packets-received"] = s.PacketsRecv

IsConnRecord(r, c) ==
  /\ r.level = "info"
  /\ DOMAIN r.fields = {"connection"}
  /\ r.fields["connection"] = c

\* C7: a Collector() call of the network collector whose two queries
\* succeeded with k interface records and c connections emits exactly k + c
\* records: the k interface records in input order, then the c connection
\* records; and it returns nil.
C7_NetworkAggregation ==
  \A i \in 1..Len(calls) :
    ( /\ IsCollectorCall(i, "NetworkCollector")
      /\ calls[i].env.net_io_counters.err = NoErr
      /\ calls[i].env.net_connections.err = NoErr ) =>
      LET io == calls[i].env.net_io_counters.val
          cn == calls[i].env.net_connections.val
          rs == calls[i].out.records
      IN /\ Len(rs) = Len(io) + Len(cn)
         /\ \A k \in 1..Len(io) : IsIfaceRecord(rs[k], io[k])
         /\ \A k \in 1..Len(cn) : IsConnRecord(rs[Len(io) + k], cn[k])
         /\ ~calls[i].out.panic
         /\ calls[i].out.ret = NoErr

\* C7 witness: one call reported two different interfaces and no connection,
\* and one call reported an interface followed by a connection
C7_Witness ==
  /\ \E i \in 1..Len(calls) :
       /\ IsCollectorCall(i, "NetworkCollector")
       /\ calls[i].env.net_io_counters.err = NoErr
       /\ calls[i].env.net_connections.err = NoErr
       /\ Len(calls[i].env.net_io_counters.val) = 2
       /\ calls[i].env.net_io_counters.val[1] # calls[i].env.net_io_counters.val[2]
       /\ Len(calls[i].env.net_connections.val) = 0
       /\ Len(calls[i].out.records) = 2
  /\ \E i \in 1..Len(calls) :
       /\ IsCollectorCall(i, "NetworkCollector")
       /\ calls[i].env.net_io_counters.err = NoErr
       /\ calls[i].env.net_connections.err = NoErr
       /\ Len(calls[i].env.net_io_counters.val) >= 1
       /\ Len(calls[i].env.net_connections.val) >= 1

\* C8: a Collector() call of the network collector whose connections query
\* failed emits no connection record, emits an error record only for a failed
\* counters query (carrying that query's error), still emits one record per
\* interface counter record in input order, and returns nil.
C8_SwallowedConnectionFailure ==
  \A i \in 1..Len(calls) :
    ( /\ IsCollectorCall(i, "NetworkCollector")
      /\ calls[i].env.net_connections.err # NoErr ) =>
      LET io == calls[i].env.net_io_counters
          rs == calls[i].out.records
          ne == Cardinality(ErrorRecords(rs))
      IN /\ \A j \in 1..Len(rs) : "connection" \notin DOMAIN rs[j].fields
         /\ ne = (IF io.err # NoErr THEN 1 ELSE 0)
         /\ \A j \in ErrorRecords(rs) :
              rs[j].fields["error"] = io.err /\ rs[j].msg = "Error getting network info"
         /\ Len(rs) = ne + Len(io.val)
         /\ \A k \in 1..Len(io.val) : IsIfaceRecord(rs[ne + k], io.val[k])
         /\ ~calls[i].out.panic
         /\ calls[i].out.ret = NoErr

\* C8 witness: the connections query failed while the counters query returned
\* interface records, which were reported
C8_Witness ==
  \E i \in 1..Len(calls) :
    /\ IsCollectorCall(i, "NetworkCollector")
    /\ calls[i].env.net_connections.err # NoErr
    /\ calls[i].env.net_io_counters.err = NoErr
    /\ Len(calls[i].env.net_io_counters.val) = 2
    /\ Len(calls[i].out.records) = 2

\* C9: two Collector() calls on the same instance with the same platform
\* readings emit the same records; a call leaves the instance without state;
\* and the sink holds the record sequences of the calls one after the other.
C9_Idempotence ==
  /\ \A i, j \in 1..Len(calls) :
       ( /\ calls[i].op = "Collector"
         /\ calls[j].op = "Collector"
         /\ calls[i].recv = calls[j].recv
         /\ calls[i].env = calls[j].env ) =>
         calls[i].out.records = calls[j].out.records
  /\ \A i \in 1..Len(calls) :
       calls[i].op = "Collector" => calls[i].out.self = EmptyStruct
  /\ \A k \in 1..Len(collectors) : collectors[k].self = EmptyStruct
  /\ log = ConcatRecords(calls, Len(calls))

\* C9 witness: the same instance was called twice with the same readings and
\* reported both times
C9_Witness ==
  \E i, j \in 1..Len(calls) :
    /\ i < j
    /\ calls[i].op = "Collector"
    /\ calls[j].op = "Collector"
    /\ calls[i].recv = calls[j].recv
    /\ calls[i].env = calls[j].env
    /\ InfoRecords(calls[i].out.records) # {}
    /\ Len(log) = Len(calls[i].out.records) + Len(calls[j].out.records)

\* C10: the sink starts with the banner; the i-th call of a run is the
\* Collector() call on the i-th collector of the registry; the sink holds the
\* banner followed by the records of the calls, call after call; and a run
\* that has ended has invoked every collector of the registry.
C10_SequentialDriverOrder ==
  /\ pc # "start" => (Len(log) >= 1 /\ log[1] = Banner)
  /\ \A i \in 1..Len(calls) : calls[i].op = "Collector" /\ calls[i].recv = i
  /\ pc # "start" => log = <<Banner>> \o ConcatRecords(calls, Len(calls))
  /\ RunEnded => Len(calls) = Len(RegisterCollectors)

====
